---- MODULE Spec2Model ----
(***************************************************************************)
(* A model of connexion's request pipeline:                                *)
(*   - the name sanitizers of connexion/decorators/parameter.py,           *)
(*   - the request validation stage (middleware/request_validation.py),    *)
(*   - the routing stage (middleware/routing.py),                          *)
(*   - the parameter-to-argument adapter (decorators/parameter.py),        *)
(*   - the resolution of query defaults, with object identity,             *)
(*   - the rewriting of path templates (middleware/routing.py).            *)
(*                                                                         *)
(* Strings that the code inspects character by character (parameter       *)
(* names) are sequences of one-character strings.  Python dicts are        *)
(* sequences of <<key, value>> pairs with unique keys, in insertion order. *)
(***************************************************************************)
EXTENDS Integers, Sequences, FiniteSets, TLC

VARIABLES
    nameIn,     \* the name handed to a sanitizer
    nameOut,    \* what the sanitizer returned
    nameFn,     \* which sanitizer ran: "none", "sanitized" or "pythonic"
    vop,        \* validation: the operation (consumes, body schema, validator map)
    vreq,       \* validation: the request (content-type header, validity of its parts)
    vpc,        \* validation: position of RequestValidationOperation.__call__
    vlog,       \* validation: the steps run so far, each with its outcome
    vmime,      \* validation: the resolved mime type and encoding
    vstatus,    \* validation: 0, or the status of the problem that was raised
    rin,        \* routing: per request, the ASGI scope as the server handed it over
    rscope,     \* routing: per request, that scope dict as the router has updated it
    scopeVar,   \* routing: the ContextVar _scope, one slot per task context
    rmatch,     \* routing: per request, what the router resolved
    rfwd,       \* routing: per request, the scope passed to the next application
    rpc,        \* routing: per request, the position of its task
    rseen,      \* routing: per request, whether another request stored its scope
                \*          while this one was suspended between store and read
    aop,        \* adapter: the operation handed to parameter_to_arg
    afn,        \* adapter: the handler's signature and the sanitizer in use
    areq,       \* adapter: the request the wrapper was called with
    ares,       \* adapter: what the wrapper did with it
    qdefs,      \* defaults: the query parameter definitions being resolved
    heap,       \* defaults: the lists and dicts in memory, by object identity
    qfirst,     \* defaults: the mapping the first resolution returned
    qsecond,    \* defaults: the mapping the second resolution returned
    qsnap,      \* defaults: the first mapping's contents at the time it was returned
    qpc,        \* defaults: "idle", "start", "first" or "second"
    ptemplate,  \* paths: the path template of the operation being added, in parts
    ptypes,     \* paths: the operation's path parameter types
    pout        \* paths: what starlettify_path returned

nameVars == <<nameIn, nameOut, nameFn>>
valVars == <<vop, vreq, vpc, vlog, vmime, vstatus>>
routeVars == <<rin, rscope, scopeVar, rmatch, rfwd, rpc, rseen>>
argVars == <<aop, afn, areq, ares>>
defVars == <<qdefs, heap, qfirst, qsecond, qsnap, qpc>>
pathVars == <<ptemplate, ptypes, pout>>

vars == <<nameIn, nameOut, nameFn, vop, vreq, vpc, vlog, vmime, vstatus,
          rin, rscope, scopeVar, rmatch, rfwd, rpc, rseen,
          aop, afn, areq, ares,
          qdefs, heap, qfirst, qsecond, qsnap, qpc, ptemplate, ptypes, pout>>

-----------------------------------------------------------------------------
(* Bounds *)

\* Longest parameter name handed to the sanitizers.
MaxNameLen == 3

\* Most content types an operation declares in its consumes list.
MaxConsumes == 2

\* Requests in flight at the same time in the routing middleware.
NumReqs == 2

\* Most query parameters, and most context entries, a request carries.
MaxQueryParams == 1
MaxContext == 1

-----------------------------------------------------------------------------
(* Characters and strings *)

LowerChars == {"i", "d", "n", "b", "o", "y", "c", "t", "e", "x"}
UpperChars == {"I", "D"}
DigitChars == {"1"}
OtherChars == {"_", "-", "$", "[", "]"}

\* The characters the bounded names are spelled with.
Alphabet == {"i", "d", "n"} \cup UpperChars \cup DigitChars \cup OtherChars

\* str.lower() on one character
LowerOf(c) == CASE c = "I" -> "i" [] c = "D" -> "d" [] OTHER -> c

RECURSIVE Flatten(_)
Flatten(ss) == IF ss = <<>> THEN <<>> ELSE Head(ss) \o Flatten(Tail(ss))

\* All names of length at most n over the alphabet.
RECURSIVE NamesUpTo(_)
NamesUpTo(n) ==
    IF n = 0 THEN {<<>>}
    ELSE LET shorter == NamesUpTo(n - 1)
         IN  shorter \cup {Append(s, c) : s \in {t \in shorter : Len(t) = n - 1}, c \in Alphabet}

\* builtins.__dict__ and keyword.kwlist, restricted to the words the alphabet can spell.
PyBuiltins == {<<"i", "d">>}
PyKeywords == {<<"i", "n">>}

\* inflection.underscore(word)
underscore(word) ==
    LET n == Len(word)
        \* re.sub(r"([A-Z]+)([A-Z][a-z])", r"\1_\2", word)
        w1 == Flatten([i \in 1..n |->
                 IF /\ i + 2 <= n
                    /\ word[i] \in UpperChars
                    /\ word[i + 1] \in UpperChars
                    /\ word[i + 2] \in LowerChars
                 THEN <<word[i], "_">> ELSE <<word[i]>>])
        n1 == Len(w1)
        \* re.sub(r"([a-z\d])([A-Z])", r"\1_\2", word)
        w2 == Flatten([i \in 1..n1 |->
                 IF /\ i + 1 <= n1
                    /\ w1[i] \in LowerChars \cup DigitChars
                    /\ w1[i + 1] \in UpperChars
                 THEN <<w1[i], "_">> ELSE <<w1[i]>>])
        \* word.replace("-", "_").lower()
    IN  [i \in 1..Len(w2) |-> IF w2[i] = "-" THEN "_" ELSE LowerOf(w2[i])]

\* The mutant: the shadow check left out.
snake_and_shadow_noshadow(name) == underscore(name)

snake_and_shadow(name) ==
    LET snake == underscore(name)
    IN  IF snake \in PyBuiltins \/ snake \in PyKeywords
        THEN Append(snake, "_")
        ELSE snake

RECURSIVE StripLeading(_)
\* re.sub("^[^a-zA-Z_]+", "", s)
StripLeading(s) ==
    IF s = <<>> THEN s
    ELSE IF Head(s) \in LowerChars \cup UpperChars \cup {"_"} THEN s
    ELSE StripLeading(Tail(s))

IsWordChar(c) == c \in LowerChars \cup UpperChars \cup DigitChars \cup {"_"}

\* The mutant: the leading digits are kept.
sanitized_keepdigits(name) ==
    SelectSeq([i \in 1..Len(name) |->
                  IF name[i] = "[" /\ ~(i < Len(name) /\ name[i + 1] = "]")
                  THEN "_" ELSE name[i]], IsWordChar)

sanitized(name) ==
    IF name = <<>> THEN name
    ELSE LET n == Len(name)
             \* re.sub(r"\[(?!])", "_", name)
             s1 == [i \in 1..n |->
                      IF name[i] = "[" /\ ~(i < n /\ name[i + 1] = "]")
                      THEN "_" ELSE name[i]]
             \* re.sub("[^0-9a-zA-Z_]", "", s1)
             s2 == SelectSeq(s1, IsWordChar)
         IN  StripLeading(s2)

pythonic(name) ==
    sanitized(IF name = <<>> THEN name ELSE snake_and_shadow(name))

-----------------------------------------------------------------------------
(* Python dicts: sequences of <<key, value>> pairs, keys unique, in        *)
(* insertion order.                                                        *)

DictKeys(d) == {d[i][1] : i \in 1..Len(d)}

DictHas(d, k) == \E i \in 1..Len(d) : d[i][1] = k

\* d[k], for a key that is present
DictGet(d, k) == d[CHOOSE i \in 1..Len(d) : d[i][1] = k][2]

\* d[k] = v: an existing key keeps its place
DictSet(d, k, v) ==
    IF DictHas(d, k)
    THEN [i \in 1..Len(d) |-> IF d[i][1] = k THEN <<k, v>> ELSE d[i]]
    ELSE Append(d, <<k, v>>)

RECURSIVE DictUpdate(_, _)
\* d.update(e)
DictUpdate(d, e) ==
    IF e = <<>> THEN d
    ELSE DictUpdate(DictSet(d, Head(e)[1], Head(e)[2]), Tail(e))

\* The dicts with at most n entries, keys from K and values from V.
RECURSIVE DictsUpTo(_, _, _)
DictsUpTo(K, V, n) ==
    IF n = 0 THEN {<<>>}
    ELSE LET shorter == DictsUpTo(K, V, n - 1)
             longest == {e \in shorter : Len(e) = n - 1}
         IN  shorter \cup
             UNION {{Append(d, <<k, v>>) : k \in K \ DictKeys(d), v \in V} : d \in longest}

-----------------------------------------------------------------------------
(* Request validation: middleware/request_validation.py *)

\* A media type is a record [t, s]: type and subtype as written, so that
\* "APPLICATION" and "application" are different strings until lowered.
LowerStr(x) ==
    CASE x = "APPLICATION" -> "application"
      [] x = "JSON" -> "json"
      [] OTHER -> x

MimeLower(m) == [t |-> LowerStr(m.t), s |-> LowerStr(m.s)]

\* Content types a request can carry in its header.
HeaderMimes ==
    [t : {"application", "APPLICATION", "text"}, s : {"json", "JSON", "xml", "plain"}]

\* Content types (and media ranges) an operation can declare.
DeclaredMimes ==
    { [t |-> "application", s |-> "json"], [t |-> "application", s |-> "JSON"],
      [t |-> "application", s |-> "*"], [t |-> "text", s |-> "plain"],
      [t |-> "*", s |-> "*"] }

OctetStream == [t |-> "application", s |-> "octet-stream"]
NoMime == [t |-> "", s |-> ""]

RECURSIVE SeqsUpTo(_, _)
SeqsUpTo(S, n) ==
    IF n = 0 THEN {<<>>}
    ELSE LET shorter == SeqsUpTo(S, n - 1)
         IN  shorter \cup {Append(q, x) : q \in {r \in shorter : Len(r) = n - 1}, x \in S}

\* fnmatch(item, key) on the two halves of a media type: "*" in the key
\* matches any text, everything else matches itself only (case matters).
fnmatch(item, key) ==
    /\ key.t = "*" \/ key.t = item.t
    /\ key.s = "*" \/ key.s = item.s

\* item in MediaTypeDict(keys)
MediaTypeDictContains(keys, item) == \E k \in keys : fnmatch(item, k)

\* The mutant: the request's mime type is compared as written.
validate_mime_type_nolower(consumes, mime_type) ==
    LET media_type_dict == {MimeLower(consumes[i]) : i \in 1..Len(consumes)}
    IN  ~MediaTypeDictContains(media_type_dict, mime_type)

\* TRUE when validate_mime_type raises UnsupportedMediaTypeProblem.
validate_mime_type(consumes, mime_type) ==
    LET media_type_dict == {MimeLower(consumes[i]) : i \in 1..Len(consumes)}
    IN  ~MediaTypeDictContains(media_type_dict, MimeLower(mime_type))

\* RequestValidationOperation.extract_content_type
extract_content_type(consumes, header) ==
    [mime |-> IF header.present THEN header.mime
              ELSE IF Len(consumes) > 0 THEN consumes[1] ELSE OctetStream,
     encoding |-> IF header.present /\ header.encoding # "" THEN header.encoding
                  ELSE "utf-8"]

-----------------------------------------------------------------------------
(* Routing: middleware/routing.py *)

Reqs == 1..NumReqs

\* A scope's "path_params" and its connexion routing extension are either
\* absent (set = FALSE) or present with a content.
NoParams == [set |-> FALSE, d |-> <<>>]
NoRouting == [set |-> FALSE, api_base_path |-> <<>>, operation_id |-> "unset"]
NoScope == [type |-> "none", rid |-> 0, app |-> FALSE, path_params |-> NoParams,
            root_path |-> <<>>, routing |-> NoRouting, method |-> "", path |-> <<>>]
NoMatch == [operation_id |-> "unset", params |-> <<>>, base |-> <<>>]

\* The scopes the server hands to the middleware for request r.  rid stands
\* for what identifies the request (its path, headers, client).
IncomingScopes(r) ==
    { [type |-> "websocket", rid |-> r, app |-> FALSE, path_params |-> NoParams,
       root_path |-> <<>>, routing |-> NoRouting, method |-> "", path |-> <<"api", "items">>] }
    \cup
    { [type |-> "http", rid |-> r, app |-> FALSE, path_params |-> pp,
       root_path |-> rp, routing |-> NoRouting, method |-> "GET",
       path |-> <<"api", "items">>] :
         pp \in {NoParams, [set |-> TRUE, d |-> << <<"id", "1">> >>]},
         rp \in {<<>>, <<"/t">>} }

\* What the router can resolve: a registered operation with the path
\* parameters of its route, under a mounted base path, or no route at all
\* (the default operation, whose operation_id is None).
Matches ==
    [operation_id : {"get_item"},
     params : {<<>>, << <<"id", "2">> >>, << <<"x", "3">> >>},
     base : {<<>>, <<"/api">>}]
    \cup
    [operation_id : {"None"}, params : {<<>>}, base : {<<>>, <<"/api">>}]

\* A path is the sequence of its segments, one after each "/": "/api/items"
\* is <<"api", "items">>, and a trailing slash is a last, empty segment.
RequestPaths ==
    { <<"api", "items">>, <<"api", "items", "">>, <<"api", "items", "2">>,
      <<"api", "other">>, <<"api">>, <<"other">> }

RequestMethods == {"GET", "POST"}

\* The scopes of the requests the router is run on.
RoutedScopes(r) ==
    { [type |-> "websocket", rid |-> r, app |-> FALSE, path_params |-> NoParams,
       root_path |-> <<>>, routing |-> NoRouting, method |-> "", path |-> <<"api", "items">>] }
    \cup
    { [type |-> "http", rid |-> r, app |-> FALSE, path_params |-> pp,
       root_path |-> rp, routing |-> NoRouting, method |-> m, path |-> p] :
         pp \in {NoParams, [set |-> TRUE, d |-> << <<"id", "1">> >>]},
         rp \in {<<>>, <<"/t">>}, m \in RequestMethods, p \in RequestPaths }

\* RoutingAPI.add_operation: the routes of the one API added, each with its
\* path template, its method and the operation it stands for.
ApiRoutes ==
    << [path |-> <<"items">>, methods |-> {"GET"}, operation_id |-> "get_items"],
       [path |-> <<"items", "{id}">>, methods |-> {"GET"}, operation_id |-> "get_item"] >>

\* RoutingMiddleware.add_api: the base path the API's router is mounted at.
ApiBasePath == <<"api">>

IsPlaceholder(segment) == segment \in {"{id}"}

\* The path regex of a route: a placeholder matches any non-empty segment.
PathMatches(template, path) ==
    /\ Len(template) = Len(path)
    /\ \A i \in 1..Len(template) :
          IF IsPlaceholder(template[i]) THEN path[i] # "" ELSE path[i] = template[i]

\* The parameters a route resolves from a path it matches.
PathParamsOf(template, path) ==
    LET bound == SelectSeq([i \in 1..Len(template) |-> <<template[i], path[i]>>],
                           LAMBDA pair : IsPlaceholder(pair[1]))
    IN  [i \in 1..Len(bound) |-> <<"id", bound[i][2]>>]

\* starlette's Route.matches: NONE, PARTIAL (the path matches, the method
\* does not) or FULL.
RouteMatch(route, path, method) ==
    IF ~PathMatches(route.path, path) THEN "NONE"
    ELSE IF method \notin route.methods THEN "PARTIAL"
    ELSE "FULL"

\* starlette's Mount.matches: FULL for every path under the base path.
MountMatches(base, path) ==
    /\ Len(path) > Len(base)
    /\ SubSeq(path, 1, Len(base)) = base

\* The path with its trailing slash added or removed (redirect_slashes).
ToggleSlash(path) ==
    IF path # <<>> /\ path[Len(path)] = ""
    THEN SubSeq(path, 1, Len(path) - 1)
    ELSE Append(path, "")

\* The first route of a kind of match, 0 when there is none.
FirstRoute(routes, path, method, kind) ==
    LET hits == {i \in 1..Len(routes) : RouteMatch(routes[i], path, method) = kind}
    IN  IF hits = {} THEN 0 ELSE CHOOSE i \in hits : \A j \in hits : i <= j

\* The router of the API (starlette's Router.app over ApiRoutes, with
\* RoutingOperation(None, next_app) as its default), for a scope that has
\* "app" set: a full match is handled by its RoutingOperation; a route that
\* matches the path but not the method raises HTTPException(405); a path
\* that matches a route once its trailing slash is toggled is answered with
\* a redirect; everything else goes to the default.
ApiRouter(path, method, base) ==
    LET full == FirstRoute(ApiRoutes, path, method, "FULL")
        partial == FirstRoute(ApiRoutes, path, method, "PARTIAL")
    IN  IF full # 0
        THEN [kind |-> "operation", operation_id |-> ApiRoutes[full].operation_id,
              params |-> PathParamsOf(ApiRoutes[full].path, path), base |-> base]
        ELSE IF partial # 0
        THEN [kind |-> "raise", operation_id |-> "unset", params |-> <<>>, base |-> base]
        ELSE IF \E i \in 1..Len(ApiRoutes) :
                   RouteMatch(ApiRoutes[i], ToggleSlash(path), method) # "NONE"
        THEN [kind |-> "redirect", operation_id |-> "unset", params |-> <<>>, base |-> base]
        ELSE [kind |-> "operation", operation_id |-> "None", params |-> <<>>, base |-> base]

\* self.router of RoutingMiddleware: the mounted API, then the redirect of
\* a path that the mount matches once its slash is toggled, then the default
\* RoutingOperation(None, self.app).
MiddlewareRouter(path, method) ==
    IF MountMatches(ApiBasePath, path)
    THEN ApiRouter(SubSeq(path, Len(ApiBasePath) + 1, Len(path)), method, <<"/api">>)
    ELSE IF MountMatches(ApiBasePath, ToggleSlash(path))
    THEN [kind |-> "redirect", operation_id |-> "unset", params |-> <<>>, base |-> <<>>]
    ELSE [kind |-> "operation", operation_id |-> "None", params |-> <<>>, base |-> <<>>]

\* ContextVar.set / ContextVar.get: a value set in one task's context is
\* seen in that context only.
ContextVarSet_global(cv, task, value) == [t \in DOMAIN cv |-> value]

ContextVarSet(cv, task, value) == [cv EXCEPT ![task] = value]

ContextVarGet(cv, task) == cv[task]

\* The scope after the router's scope.update(child_scope) for a match.
RouterChildScope(scope, m) ==
    IF m.operation_id = "None" /\ m.base = <<>>
    THEN scope
    ELSE [scope EXCEPT
            !.path_params = [set |-> TRUE, d |-> DictUpdate(scope.path_params.d, m.params)],
            !.root_path = scope.root_path \o m.base]

\* The mutant: values already resolved are kept (dict.setdefault per key).
merge_path_params_keepouter(original_pp, scope_pp) ==
    [set |-> TRUE,
     d |-> DictUpdate(scope_pp.d, original_pp.d)]

\* original_scope.setdefault("path_params", {}).update(scope.get("path_params", {}))
merge_path_params(original_pp, scope_pp) ==
    [set |-> TRUE,
     d |-> DictUpdate(original_pp.d, scope_pp.d)]

\* The scope RoutingOperation.__call__ passes to next_app.
RoutingOperationForward(original_scope, scope, operation_id) ==
    [original_scope EXCEPT
        !.path_params = merge_path_params(original_scope.path_params, scope.path_params),
        !.routing = [set |-> TRUE,
                     api_base_path |-> SubSeq(scope.root_path,
                                              Len(original_scope.root_path) + 1,
                                              Len(scope.root_path)),
                     operation_id |-> operation_id]]

-----------------------------------------------------------------------------
(* Argument extraction: decorators/parameter.py *)

\* Python values.  Every value is a record [k, v, d]: its kind, its text,
\* and for a dict or a list its items as <<key, value>> pairs.
StrVal(x) == [k |-> "str", v |-> x, d |-> <<>>]
IntVal(x) == [k |-> "int", v |-> x, d |-> <<>>]
NoneVal == [k |-> "none", v |-> "", d |-> <<>>]
DictVal(d) == [k |-> "dict", v |-> "", d |-> d]
ListVal(d) == [k |-> "list", v |-> "", d |-> d]
JsonVal(x) == [k |-> "json", v |-> x, d |-> <<>>]
BytesVal(x) == [k |-> "bytes", v |-> x, d |-> <<>>]
FileVal(x) == [k |-> "file", v |-> x, d |-> <<>>]
CtxVal(x) == [k |-> "ctx", v |-> x, d |-> <<>>]

\* An exception leaving a function: as a value, and as the dict a function
\* would have returned.  Both absorb every later step.
RaiseVal == [k |-> "raise", v |-> "TypeCoercionError", d |-> <<>>]
Raise == << << <<"!">>, RaiseVal >> >>

\* d[k] = v, and d.update(e), where d, v or e may be an exception under way
Put(d, k, v) == IF d = Raise \/ v.k = "raise" THEN Raise ELSE DictSet(d, k, v)
Upd(d, e) == IF d = Raise \/ e = Raise THEN Raise ELSE DictUpdate(d, e)

CONTEXT_NAME == <<"c", "o", "n", "t", "e", "x", "t", "_">>

FORM_CONTENT_TYPES == {"application/x-www-form-urlencoded", "multipart/form-data"}

\* sanitize = pythonic if pythonic_params else sanitized
Sanitize(pythonic_params, name) ==
    IF pythonic_params THEN pythonic(name) ELSE sanitized(name)

\* "in arguments or has_kwargs"
Accepts(arguments, has_kwargs, name) == has_kwargs \/ name \in arguments

is_nullable(schema) == schema.nullable

is_null(value) ==
    \/ value.k = "none"
    \/ value.k = "str" /\ value.v \in {"", "null", "None"}

\* A request's content type: request.mimetype, and whether the header
\* carries parameters ("; charset=...", "; boundary=...") after it, which
\* request.content_type keeps.
ContentType(mimetype, params) == [mimetype |-> mimetype, params |-> params]

\* content_type in types, for the header text as written
ContentTypeIn(content_type, types) ==
    ~content_type.params /\ content_type.mimetype \in types

\* utils.is_json_mimetype(content_type): parameters are split off first
is_json_mimetype(content_type) == content_type.mimetype = "application/json"

Numerals == {"1", "2", "5", "7"}

\* make_type(value, type_, format_)
make_type(value, type_) ==
    CASE type_ = "integer" ->
            IF value.k = "int" THEN value
            ELSE IF value.k = "str" /\ value.v \in Numerals THEN IntVal(value.v)
            ELSE RaiseVal
      [] type_ = "string" ->
            IF value.k \in {"str", "int"} THEN StrVal(value.v) ELSE value
      [] OTHER -> value

\* A schema: type, nullable, default, items type, properties.
Schema(type_, nullable, has_default, default, props) ==
    [type |-> type_, nullable |-> nullable, has_default |-> has_default,
     default |-> default, items_type |-> "integer", props |-> props]

\* A parameter definition.  has_schema tells an OpenAPI 3 definition (type
\* and default under "schema") from a Swagger 2 one (both at the top level).
ParamDef(name, in_, has_schema, has_default, default, schema) ==
    [name |-> name, in |-> in_, has_schema |-> has_schema,
     has_default |-> has_default, default |-> default, schema |-> schema]

\* param_definitions.get("schema", param_definitions): the field schema holds
\* the type and nullability in either case.
_get_val_from_param(value, param_definitions) ==
    LET param_schema == param_definitions.schema
    IN  IF is_nullable(param_schema) /\ is_null(value) THEN NoneVal
        ELSE IF param_schema.type = "array"
        THEN LET parts == IF value.k = "list" THEN value.d ELSE << <<<<"1">>, value>> >>
                 made == [i \in 1..Len(parts) |->
                            <<parts[i][1], make_type(parts[i][2], param_schema.items_type)>>]
             IN  IF \E i \in 1..Len(made) : made[i][2].k = "raise"
                 THEN RaiseVal ELSE ListVal(made)
        ELSE make_type(value, param_schema.type)

\* {parameter["name"]: parameter for parameter in operation.parameters if parameter["in"] == where}
RECURSIVE DefinitionsIn(_, _)
DefinitionsIn(parameters, where) ==
    IF parameters = <<>> THEN <<>>
    ELSE LET rest == DefinitionsIn(Tail(parameters), where)
             p == Head(parameters)
         IN  IF p.in = where
             THEN DictUpdate(<< <<p.name, p>> >>, rest)
             ELSE rest

RECURSIVE PathArgsLoop(_, _, _, _)
PathArgsLoop(items, path_definitions, pythonic_params, kwargs) ==
    IF items = <<>> THEN kwargs
    ELSE LET name == Head(items)[1]
             value == Head(items)[2]
             sanitized_key == Sanitize(pythonic_params, name)
             val == IF DictHas(path_definitions, name)
                    THEN _get_val_from_param(value, DictGet(path_definitions, name))
                    ELSE value
         IN  PathArgsLoop(Tail(items), path_definitions, pythonic_params,
                          Put(kwargs, sanitized_key, val))

_get_path_arguments(path_params, operation, pythonic_params) ==
    PathArgsLoop(path_params, DefinitionsIn(operation.parameters, "path"),
                 pythonic_params, <<>>)

RECURSIVE _build_default_obj_recursive(_, _)
_build_default_obj_recursive(properties, default_object) ==
    IF properties = <<>> THEN default_object
    ELSE LET name == Head(properties)[1]
             property_ == Head(properties)[2]
             next ==
               IF property_.has_default /\ ~DictHas(default_object, name)
               THEN DictSet(default_object, name, property_.default)
               ELSE IF property_.type = "object" /\ property_.props # <<>>
               THEN LET sub == IF DictHas(default_object, name)
                               THEN DictGet(default_object, name).d ELSE <<>>
                    IN  DictSet(default_object, name,
                                DictVal(_build_default_obj_recursive(property_.props, sub)))
               ELSE default_object
         IN  _build_default_obj_recursive(Tail(properties), next)

_get_default_obj(schema) ==
    IF schema.has_default THEN schema.default
    ELSE DictVal(_build_default_obj_recursive(schema.props, <<>>))

RECURSIVE QueryDefaultsLoop(_, _)
QueryDefaultsLoop(items, defaults) ==
    IF items = <<>> THEN defaults
    ELSE LET k == Head(items)[1]
             v == Head(items)[2]
             next ==
               IF v.has_default THEN DictSet(defaults, k, v.default)
               ELSE IF ~v.has_schema THEN defaults
               ELSE IF v.schema.type = "object"
               THEN DictSet(defaults, k, _get_default_obj(v.schema))
               ELSE IF v.schema.has_default
               THEN DictSet(defaults, k, v.schema.default)
               ELSE defaults
         IN  QueryDefaultsLoop(Tail(items), next)

_get_query_defaults(query_definitions) == QueryDefaultsLoop(query_definitions, <<>>)

RECURSIVE deep_merge(_, _)
\* utils.deep_merge(a, b): b merged into a, mapping by mapping, b winning
deep_merge(a, b) ==
    IF b = <<>> THEN a
    ELSE LET key == Head(b)[1]
             value == Head(b)[2]
             merged ==
               IF value.k = "dict" /\ DictHas(a, key) /\ DictGet(a, key).k = "dict"
               THEN DictVal(deep_merge(DictGet(a, key).d, value.d))
               ELSE value
         IN  deep_merge(DictSet(a, key, merged), Tail(b))

\* The mutant: the lookup in the declared query parameters left out.
RECURSIVE QueryArgsLoop_undeclared(_, _, _, _, _, _)
QueryArgsLoop_undeclared(items, query_definitions, function_arguments, has_kwargs, pythonic_params, result) ==
    IF items = <<>> THEN result
    ELSE LET key == Head(items)[1]
             value == Head(items)[2]
             sanitized_key == Sanitize(pythonic_params, key)
             next ==
               IF ~has_kwargs /\ sanitized_key \notin function_arguments THEN result
               ELSE IF ~DictHas(query_definitions, key)
               THEN Put(result, sanitized_key, value)
               ELSE Put(result, sanitized_key,
                        _get_val_from_param(value, DictGet(query_definitions, key)))
         IN  QueryArgsLoop_undeclared(Tail(items), query_definitions, function_arguments,
                                      has_kwargs, pythonic_params, next)

RECURSIVE QueryArgsLoop(_, _, _, _, _, _)
QueryArgsLoop(items, query_definitions, function_arguments, has_kwargs, pythonic_params, result) ==
    IF items = <<>> THEN result
    ELSE LET key == Head(items)[1]
             value == Head(items)[2]
             sanitized_key == Sanitize(pythonic_params, key)
             next ==
               IF ~has_kwargs /\ sanitized_key \notin function_arguments THEN result
               ELSE IF ~DictHas(query_definitions, key) THEN result
               ELSE Put(result, sanitized_key,
                        _get_val_from_param(value, DictGet(query_definitions, key)))
         IN  QueryArgsLoop(Tail(items), query_definitions, function_arguments,
                           has_kwargs, pythonic_params, next)

_query_args_helper(query_definitions, query_arguments, function_arguments, has_kwargs, pythonic_params) ==
    QueryArgsLoop(query_arguments, query_definitions, function_arguments,
                  has_kwargs, pythonic_params, <<>>)

_get_query_arguments(query_params, operation, arguments, has_kwargs, pythonic_params) ==
    LET query_definitions == DefinitionsIn(operation.parameters, "query")
        default_query_params == _get_query_defaults(query_definitions)
        query_arguments == deep_merge(default_query_params, query_params)
    IN  _query_args_helper(query_definitions, query_arguments, arguments,
                           has_kwargs, pythonic_params)

\* _get_typed_body_values(body_arg, body_props, additional_props)
RECURSIVE TypedBodyLoop(_, _, _, _)
TypedBodyLoop(items, body_props, additional_props, res) ==
    IF items = <<>> THEN res
    ELSE LET key == Head(items)[1]
             value == Head(items)[2]
             next ==
               IF DictHas(body_props, key)
               THEN Put(res, key, _get_val_from_param(value, DictGet(body_props, key)))
               ELSE IF additional_props.kind = "false" THEN res
               ELSE IF additional_props.kind = "schema"
               THEN Put(res, key, _get_val_from_param(value, additional_props.defn))
               ELSE Put(res, key, value)
         IN  TypedBodyLoop(Tail(items), body_props, additional_props, next)

_get_typed_body_values(body_arg, body_props, additional_props) ==
    TypedBodyLoop(body_arg, body_props, additional_props, <<>>)

\* {k: {"schema": v} for k, v in properties.items()}
BodyProps(props) ==
    [i \in 1..Len(props) |->
        <<props[i][1], ParamDef(props[i][1], "body", TRUE, FALSE, NoneVal, props[i][2])>>]

_get_body_argument_form(body, operation) ==
    LET schema == operation.body_schema
        default_body == IF schema.has_default THEN schema.default.d ELSE <<>>
        body_props == BodyProps(schema.props)
        additional_props == schema.additional
        \* body_arg = deepcopy(default_body); body_arg.update(body or {})
        body_arg == DictUpdate(default_body, IF body.k = "dict" THEN body.d ELSE <<>>)
    IN  IF body_props # <<>> \/ additional_props.kind # "false"
        THEN _get_typed_body_values(body_arg, body_props, additional_props)
        ELSE <<>>

_get_body_argument_json(body, operation) ==
    LET schema == operation.body_schema
    IN  IF is_nullable(schema) /\ is_null(body) THEN NoneVal
        ELSE IF body.k = "none"
        THEN IF schema.has_default THEN schema.default ELSE DictVal(<<>>)
        ELSE body

\* {sanitize(name): value for name, value in result.items() if sanitize(name) in arguments}
RECURSIVE UnpackLoop(_, _, _, _)
UnpackLoop(items, arguments, pythonic_params, res) ==
    IF items = <<>> THEN res
    ELSE LET name == Sanitize(pythonic_params, Head(items)[1])
         IN  UnpackLoop(Tail(items), arguments, pythonic_params,
                        IF name \in arguments
                        THEN DictSet(res, name, Head(items)[2]) ELSE res)

\* The mutant: the Swagger 2 carve-out left out, the form goes under body_name.
_get_body_argument_nounpack(body, operation, arguments, has_kwargs, pythonic_params, content_type) ==
    IF arguments = {} /\ ~has_kwargs THEN <<>>
    ELSE LET body_name == Sanitize(pythonic_params, operation.body_name)
             is_form == ContentTypeIn(content_type, FORM_CONTENT_TYPES)
             result == IF is_form
                       THEN _get_body_argument_form(body, operation)
                       ELSE <<>>
             value == IF is_form THEN DictVal(result)
                      ELSE _get_body_argument_json(body, operation)
         IN  IF result = Raise THEN Raise
             ELSE IF body_name \in arguments \/ has_kwargs
             THEN << <<body_name, value>> >>
             ELSE <<>>

_get_body_argument(body, operation, arguments, has_kwargs, pythonic_params, content_type) ==
    IF arguments = {} /\ ~has_kwargs THEN <<>>
    ELSE LET body_name == Sanitize(pythonic_params, operation.body_name)
             is_form == ContentTypeIn(content_type, FORM_CONTENT_TYPES)
             result == IF is_form
                       THEN _get_body_argument_form(body, operation)
                       ELSE <<>>
             value == IF is_form THEN DictVal(result)
                      ELSE _get_body_argument_json(body, operation)
         IN  IF result = Raise THEN Raise
             ELSE IF is_form /\ operation.swagger2
             THEN IF has_kwargs THEN result
                  ELSE UnpackLoop(result, arguments, pythonic_params, <<>>)
             ELSE IF body_name \in arguments \/ has_kwargs
             THEN << <<body_name, value>> >>
             ELSE <<>>

\* The mutant: every uploaded file is passed on.
_get_file_arguments_all(files, arguments, has_kwargs) == files

_get_file_arguments(files, arguments, has_kwargs) ==
    SelectSeq(files, LAMBDA item : item[1] \in arguments \/ has_kwargs)

BodyMethods == {"PATCH", "POST", "PUT"}

get_arguments(operation, path_params, query_params, body, files, arguments, has_kwargs, pythonic_params, content_type) ==
    LET ret1 == Upd(<<>>, _get_path_arguments(path_params, operation, pythonic_params))
        ret2 == Upd(ret1, _get_query_arguments(query_params, operation, arguments,
                                                has_kwargs, pythonic_params))
    IN  IF operation.method \in BodyMethods
        THEN Upd(Upd(ret2, _get_body_argument(body, operation, arguments, has_kwargs,
                                              pythonic_params, content_type)),
                 _get_file_arguments(files, arguments, has_kwargs))
        ELSE ret2

\* {sanitize(k): v for k, v in kwargs.items()}
RECURSIVE RenameLoop(_, _, _)
RenameLoop(items, pythonic_params, res) ==
    IF items = <<>> THEN res
    ELSE RenameLoop(Tail(items), pythonic_params,
                    DictSet(res, Sanitize(pythonic_params, Head(items)[1]), Head(items)[2]))

\* The mutant: a context entry does not replace an argument taken from the request.
RECURSIVE ContextLoop_keeprequest(_, _, _, _)
ContextLoop_keeprequest(items, arguments, has_kwargs, kwargs) ==
    IF items = <<>> THEN kwargs
    ELSE ContextLoop_keeprequest(Tail(items), arguments, has_kwargs,
                                 IF (has_kwargs \/ Head(items)[1] \in arguments)
                                    /\ ~DictHas(kwargs, Head(items)[1])
                                 THEN DictSet(kwargs, Head(items)[1], Head(items)[2])
                                 ELSE kwargs)

\* The mutant: every context entry is passed on.
RECURSIVE ContextLoop_all(_, _, _, _)
ContextLoop_all(items, arguments, has_kwargs, kwargs) ==
    IF items = <<>> THEN kwargs
    ELSE ContextLoop_all(Tail(items), arguments, has_kwargs,
                         DictSet(kwargs, Head(items)[1], Head(items)[2]))

\* for key, value in request.context.items(): ...
RECURSIVE ContextLoop(_, _, _, _)
ContextLoop(items, arguments, has_kwargs, kwargs) ==
    IF items = <<>> THEN kwargs
    ELSE ContextLoop(Tail(items), arguments, has_kwargs,
                     IF has_kwargs \/ Head(items)[1] \in arguments
                     THEN DictSet(kwargs, Head(items)[1], Head(items)[2])
                     ELSE kwargs)

prep_kwargs(request, operation, request_body, arguments, has_kwargs, pythonic_params) ==
    LET got == get_arguments(operation, request.path_params, request.query_params,
                             request_body, request.files, arguments, has_kwargs,
                             pythonic_params, request.content_type)
    IN  IF got = Raise THEN Raise
        ELSE LET renamed == RenameLoop(got, pythonic_params, <<>>)
                 with_context == ContextLoop(request.context, arguments, has_kwargs, renamed)
             IN  IF CONTEXT_NAME \in arguments
                 THEN DictSet(with_context, CONTEXT_NAME, DictVal(request.context))
                 ELSE with_context

\* get_flask_body(request)
get_flask_body(request) ==
    IF is_json_mimetype(request.content_type)
    THEN \* request.get_json(silent=True): None for an absent body and for null
         IF request.json = "obj" THEN JsonVal("obj") ELSE NoneVal
    ELSE IF request.content_type.mimetype \in FORM_CONTENT_TYPES
    THEN DictVal(request.form)
    ELSE IF request.data = "" THEN NoneVal ELSE BytesVal(request.data)

\* get_starlette_body(request)
get_starlette_body(request) ==
    IF is_json_mimetype(request.content_type)
    THEN \* await request.json(): null for a body that does not parse
         IF request.json = "obj" THEN JsonVal("obj") ELSE NoneVal
    ELSE IF request.content_type.mimetype \in FORM_CONTENT_TYPES
    THEN DictVal(request.form)
    ELSE IF request.data = "" THEN NoneVal ELSE BytesVal(request.data)

\* The mutant: the body is read only for a handler that takes it.
NeedsBody_bodyonly(request, operation, arguments, has_kwargs, pythonic_params) ==
    Sanitize(pythonic_params, operation.body_name) \in arguments \/ has_kwargs

\* The condition under which the wrappers read the body.
NeedsBody(request, operation, arguments, has_kwargs, pythonic_params) ==
    LET body_name == Sanitize(pythonic_params, operation.body_name)
    IN  \/ body_name \in arguments \/ has_kwargs
        \/ request.content_type.mimetype \in FORM_CONTENT_TYPES /\ operation.swagger2

-----------------------------------------------------------------------------
(* The operations, handlers and requests the adapter is run on *)

K_n == <<"n">>
K_sn == <<"$", "n">>
K_id == <<"i", "d">>
K_o == <<"o">>
K_i == <<"i">>
K_body == <<"b", "o", "d", "y">>

IntSchema == Schema("integer", FALSE, FALSE, NoneVal, <<>>)

\* OpenAPI 3 parameters: type and default live under "schema".
Parameters3 ==
    << ParamDef(K_n, "path", TRUE, FALSE, NoneVal, IntSchema),
       ParamDef(K_id, "query", TRUE, FALSE, NoneVal,
                Schema("integer", FALSE, TRUE, IntVal("7"), <<>>)),
       ParamDef(K_sn, "query", TRUE, FALSE, NoneVal,
                Schema("string", TRUE, FALSE, NoneVal, <<>>)),
       ParamDef(K_o, "query", TRUE, FALSE, NoneVal,
                Schema("object", FALSE, FALSE, NoneVal,
                       << <<K_i, Schema("integer", FALSE, TRUE, IntVal("5"), <<>>)>> >>)) >>

\* Swagger 2 parameters: type and default at the top level.
Parameters2 ==
    << ParamDef(K_n, "path", FALSE, FALSE, NoneVal, IntSchema),
       ParamDef(K_id, "query", FALSE, TRUE, IntVal("7"),
                Schema("integer", FALSE, TRUE, IntVal("7"), <<>>)),
       ParamDef(K_sn, "query", FALSE, FALSE, NoneVal,
                Schema("string", TRUE, FALSE, NoneVal, <<>>)) >>

BodySchema(nullable, has_default, default, additional) ==
    [nullable |-> nullable, has_default |-> has_default, default |-> default,
     props |-> << <<K_n, IntSchema>> >>, additional |-> additional]

AdditionalTrue == [kind |-> "true", defn |-> ParamDef(<<>>, "body", TRUE, FALSE, NoneVal, IntSchema)]
AdditionalFalse == [kind |-> "false", defn |-> ParamDef(<<>>, "body", TRUE, FALSE, NoneVal, IntSchema)]
AdditionalInt == [kind |-> "schema", defn |-> ParamDef(<<>>, "body", TRUE, FALSE, NoneVal, IntSchema)]

BodySchemas ==
    { BodySchema(FALSE, FALSE, NoneVal, AdditionalInt),
      BodySchema(TRUE, TRUE, DictVal(<< <<K_id, IntVal("5")>> >>), AdditionalTrue),
      BodySchema(FALSE, TRUE, DictVal(<< <<K_n, StrVal("5")>> >>), AdditionalFalse) }

Operation(method, swagger2, body_schema) ==
    [method |-> method, swagger2 |-> swagger2,
     parameters |-> IF swagger2 THEN Parameters2 ELSE Parameters3,
     body_name |-> K_body, body_schema |-> body_schema]

Operations ==
    {Operation("POST", sw, b) : sw \in BOOLEAN, b \in BodySchemas}
    \cup {Operation("GET", FALSE, b) : b \in {BodySchema(FALSE, FALSE, NoneVal, AdditionalInt)}}

\* What inspect_function_arguments finds, with the pythonic_params flag.
Handlers ==
    [arguments : SUBSET {K_n, K_body, CONTEXT_NAME}, has_kwargs : {FALSE},
     pythonic_params : {FALSE}]
    \cup
    [arguments : {{}, {CONTEXT_NAME}, {K_n, K_body}}, has_kwargs : {TRUE},
     pythonic_params : {FALSE}]
    \cup
    {[arguments |-> {K_n, K_body}, has_kwargs |-> FALSE, pythonic_params |-> TRUE],
     [arguments |-> {}, has_kwargs |-> TRUE, pythonic_params |-> TRUE]}

PathParamSets ==
    { <<>>, << <<K_n, StrVal("1")>> >>, << <<K_n, StrVal("x")>> >>,
      << <<K_id, StrVal("1")>> >> }

QueryParamSets ==
    DictsUpTo({K_id, K_sn, K_n}, {StrVal("1")}, MaxQueryParams)
    \cup {<< <<K_id, StrVal("x")>> >>}

ContextSets == DictsUpTo({K_n, CONTEXT_NAME}, {CtxVal("user")}, MaxContext)

FormSets == { <<>>, << <<K_n, StrVal("1")>> >>, << <<K_sn, StrVal("1")>> >> }

FileSets == { <<>>, << <<K_n, FileVal("upload")>> >> }

\* The body-carrying part of a request.  The transport parses form fields
\* from form bodies only and files from multipart bodies only.
Payloads ==
    [content_type : {ContentType("application/json", FALSE)},
     json : {"absent", "null", "obj"}, form : {<<>>}, data : {""}, files : {<<>>}]
    \cup
    [content_type : {ContentType("application/x-www-form-urlencoded", FALSE)},
     json : {"absent"}, form : FormSets, data : {""}, files : {<<>>}]
    \cup
    [content_type : {ContentType("multipart/form-data", FALSE)},
     json : {"absent"}, form : FormSets, data : {""}, files : FileSets]
    \cup
    [content_type : {ContentType("multipart/form-data", TRUE)},
     json : {"absent"}, form : {<< <<K_n, StrVal("1")>> >>}, data : {""}, files : FileSets]
    \cup
    [content_type : {ContentType("text/plain", FALSE)},
     json : {"absent"}, form : {<<>>}, data : {"", "data"}, files : {<<>>}]

Requests ==
    { [content_type |-> p.content_type, json |-> p.json, form |-> p.form,
       data |-> p.data, files |-> p.files, path_params |-> pp,
       query_params |-> qp, context |-> cx] :
         p \in Payloads, pp \in PathParamSets, qp \in QueryParamSets, cx \in ContextSets }

NoRequest ==
    [content_type |-> ContentType("", FALSE), json |-> "absent", form |-> <<>>,
     data |-> "", files |-> <<>>, path_params |-> <<>>, query_params |-> <<>>,
     context |-> <<>>]

\* A step of the wrapper that was not reached.
NotCalled == << << <<"?">>, [k |-> "notcalled", v |-> "", d |-> <<>>] >> >>

NoResult ==
    [wrapper |-> "none", request_class |-> "", body_read |-> FALSE,
     request_body |-> NoneVal,
     path_args |-> NotCalled, query_args |-> NotCalled, body_args |-> NotCalled,
     file_args |-> NotCalled, ret |-> NotCalled, kwargs |-> NotCalled]

-----------------------------------------------------------------------------
(* Each component at rest: a specification of one component keeps the    *)
(* others in these states.                                                *)

\* The sanitizers are not in use.
NamesIdle == nameIn = <<>> /\ nameOut = <<>> /\ nameFn = "idle"

\* No request in the validation stage.
ValIdle ==
    /\ vop = [consumes |-> <<>>, has_schema |-> FALSE, has_validator |-> FALSE]
    /\ vreq = [header |-> [present |-> FALSE, mime |-> NoMime, encoding |-> ""],
               params_valid |-> TRUE, body_valid |-> TRUE]
    /\ vpc = "idle"
    /\ vlog = <<>>
    /\ vmime = [mime |-> NoMime, encoding |-> ""]
    /\ vstatus = 0

\* No request in the routing stage.
RouteIdle ==
    /\ rin = [r \in Reqs |-> NoScope]
    /\ rscope = [r \in Reqs |-> NoScope]
    /\ scopeVar = [r \in Reqs |-> NoScope]
    /\ rmatch = [r \in Reqs |-> NoMatch]
    /\ rfwd = [r \in Reqs |-> NoScope]
    /\ rpc = [r \in Reqs |-> "idle"]
    /\ rseen = [r \in Reqs |-> FALSE]

\* The adapter wraps no handler.
ArgsIdle ==
    /\ aop = Operation("GET", FALSE, BodySchema(FALSE, FALSE, NoneVal, AdditionalInt))
    /\ afn = [arguments |-> {}, has_kwargs |-> FALSE, pythonic_params |-> FALSE]
    /\ areq = NoRequest
    /\ ares = [NoResult EXCEPT !.wrapper = "idle"]

\* No query defaults are being resolved.
DefaultsIdle ==
    /\ qdefs = <<>>
    /\ heap = <<>>
    /\ qfirst = <<>>
    /\ qsecond = <<>>
    /\ qsnap = <<>>
    /\ qpc = "idle"

\* No operation is being added to the router.
PathsIdle == ptemplate = <<>> /\ ptypes = <<>> /\ pout = <<"idle">>

-----------------------------------------------------------------------------
(* RequestValidationOperation.__call__, step by step *)

ValInit ==
    /\ vop \in [consumes : SeqsUpTo(DeclaredMimes, MaxConsumes),
                has_schema : BOOLEAN, has_validator : BOOLEAN]
    /\ vreq \in [header : [present : {TRUE}, mime : HeaderMimes, encoding : {"", "latin-1"}]
                          \cup {[present |-> FALSE, mime |-> NoMime, encoding |-> ""]},
                 params_valid : BOOLEAN, body_valid : BOOLEAN]
    /\ vpc = "start"
    /\ vlog = <<>>
    /\ vmime = [mime |-> NoMime, encoding |-> ""]
    /\ vstatus = 0
    /\ NamesIdle
    /\ RouteIdle
    /\ ArgsIdle
    /\ DefaultsIdle
    /\ PathsIdle

Logged(step, outcome) == vlog' = Append(vlog, <<step, outcome>>)

\* parameter_validator.validate(scope)
ValidateParameters ==
    /\ vpc = "start"
    /\ IF vreq.params_valid
       THEN /\ Logged("validate_parameters", "ok")
            /\ vpc' = "params_ok"
            /\ UNCHANGED vstatus
       ELSE /\ Logged("validate_parameters", "raise")
            /\ vpc' = "raised"
            /\ vstatus' = 400
    /\ UNCHANGED <<vop, vreq, vmime, nameVars, routeVars, argVars, defVars, pathVars>>

\* mime_type, encoding = self.extract_content_type(headers)
ExtractContentType ==
    /\ vpc = "params_ok"
    /\ vmime' = extract_content_type(vop.consumes, vreq.header)
    /\ Logged("extract_content_type", "ok")
    /\ vpc' = "resolved"
    /\ UNCHANGED <<vop, vreq, vstatus, nameVars, routeVars, argVars, defVars, pathVars>>

\* self.validate_mime_type(mime_type)
ValidateMimeType ==
    /\ vpc = "resolved"
    /\ IF validate_mime_type(vop.consumes, vmime.mime)
       THEN /\ Logged("validate_mime_type", "raise")
            /\ vpc' = "raised"
            /\ vstatus' = 415
       ELSE /\ Logged("validate_mime_type", "ok")
            /\ vpc' = "mime_ok"
            /\ UNCHANGED vstatus
    /\ UNCHANGED <<vop, vreq, vmime, nameVars, routeVars, argVars, defVars, pathVars>>

\* The mutant: a failed body validation is not propagated.
ValidateBody_swallow ==
    /\ vpc = "mime_ok"
    /\ IF ~vop.has_schema
       THEN Logged("validate_body", "no_schema")
       ELSE IF ~vop.has_validator
       THEN Logged("validate_body", "no_validator")
       ELSE IF vreq.body_valid
       THEN Logged("validate_body", "ok")
       ELSE Logged("validate_body", "raise")
    /\ vpc' = "body_done"
    /\ UNCHANGED <<vop, vreq, vmime, vstatus, nameVars, routeVars, argVars, defVars, pathVars>>

\* schema = body_schema(mime_type); the validator lookup; await wrapped_receive()
ValidateBody ==
    /\ vpc = "mime_ok"
    /\ IF ~vop.has_schema
       THEN /\ Logged("validate_body", "no_schema")
            /\ vpc' = "body_done"
            /\ UNCHANGED vstatus
       ELSE IF ~vop.has_validator
       THEN /\ Logged("validate_body", "no_validator")
            /\ vpc' = "body_done"
            /\ UNCHANGED vstatus
       ELSE IF vreq.body_valid
       THEN /\ Logged("validate_body", "ok")
            /\ vpc' = "body_done"
            /\ UNCHANGED vstatus
       ELSE /\ Logged("validate_body", "raise")
            /\ vpc' = "raised"
            /\ vstatus' = 400
    /\ UNCHANGED <<vop, vreq, vmime, nameVars, routeVars, argVars, defVars, pathVars>>

\* await self.next_app(scope, receive_fn, send)
CallNextApp ==
    /\ vpc = "body_done"
    /\ Logged("next_app", "ok")
    /\ vpc' = "forwarded"
    /\ UNCHANGED <<vop, vreq, vmime, vstatus, nameVars, routeVars, argVars, defVars, pathVars>>

ValNext ==
    \/ ValidateParameters
    \/ ExtractContentType
    \/ ValidateMimeType
    \/ ValidateBody
    \/ CallNextApp

SpecValidation == ValInit /\ [][ValNext]_vars

NextAppCalls == Cardinality({i \in 1..Len(vlog) : vlog[i][1] = "next_app"})

Ran(step) == \E i \in 1..Len(vlog) : vlog[i][1] = step

-----------------------------------------------------------------------------
(* C1: the next application is invoked at most once, and only after        *)
(* parameter validation, mime-type resolution, mime-type validation and    *)
(* (when a schema and a validator exist) body validation have completed,   *)
(* in that order, without raising; if a step raises it is never invoked.   *)
C1_NextAppOnlyAfterAllChecks ==
    /\ NextAppCalls <= 1
    /\ Ran("next_app") =>
          /\ Len(vlog) = 5
          /\ vlog[1] = <<"validate_parameters", "ok">>
          /\ vlog[2] = <<"extract_content_type", "ok">>
          /\ vlog[3] = <<"validate_mime_type", "ok">>
          /\ vlog[4][1] = "validate_body"
          /\ vlog[4][2] = (IF ~vop.has_schema THEN "no_schema"
                           ELSE IF ~vop.has_validator THEN "no_validator"
                           ELSE "ok")
          /\ vlog[4][2] = "ok" => vreq.body_valid
          /\ vreq.params_valid
          /\ vlog[5] = <<"next_app", "ok">>
    /\ (vstatus # 0 \/ \E i \in 1..Len(vlog) : vlog[i][2] = "raise") => ~Ran("next_app")

\* A request with a schema and a registered validator reached the next application.
C1_Witness ==
    /\ vpc = "forwarded"
    /\ vop.has_schema /\ vop.has_validator
    /\ Ran("next_app")

\* A media type matches a declared one when both halves agree ignoring case,
\* a "*" half of the declared type standing for any text.
RangeMatches(mime, declared) ==
    /\ declared.t = "*" \/ LowerStr(declared.t) = LowerStr(mime.t)
    /\ declared.s = "*" \/ LowerStr(declared.s) = LowerStr(mime.s)

MatchesNoConsumedType ==
    \A i \in 1..Len(vop.consumes) : ~RangeMatches(vmime.mime, vop.consumes[i])

(* C2: validate_mime_type fails with 415 exactly when the resolved mime    *)
(* type matches, case-insensitively and honouring media ranges, none of   *)
(* the consumed types; then the next application is not invoked.           *)
C2_UnsupportedMediaTypeExactly ==
    /\ Ran("validate_mime_type") => (vstatus = 415 <=> MatchesNoConsumedType)
    /\ ~Ran("validate_mime_type") => vstatus # 415
    /\ vstatus = 415 => ~Ran("next_app")

\* An upper-case content type that matches a declared range was let through.
C2_Witness ==
    /\ vpc = "mime_ok"
    /\ vreq.header.present
    /\ vreq.header.mime = [t |-> "APPLICATION", s |-> "JSON"]
    /\ vop.consumes = <<[t |-> "application", s |-> "*"]>>

-----------------------------------------------------------------------------
(* RoutingMiddleware.__call__ and RoutingOperation.__call__ *)

RouteInit ==
    /\ rin = [r \in Reqs |-> NoScope]
    /\ rscope = [r \in Reqs |-> NoScope]
    /\ scopeVar = [r \in Reqs |-> NoScope]
    /\ rmatch = [r \in Reqs |-> NoMatch]
    /\ rfwd = [r \in Reqs |-> NoScope]
    /\ rpc = [r \in Reqs |-> "waiting"]
    /\ rseen = [r \in Reqs |-> FALSE]
    /\ NamesIdle
    /\ ValIdle
    /\ ArgsIdle
    /\ DefaultsIdle
    /\ PathsIdle

\* RoutingMiddleware.__call__ up to its await; each request runs in a task
\* of its own.
MiddlewareCallWith(r, scopes) ==
    /\ rpc[r] = "waiting"
    /\ \E scope \in scopes :
          /\ rin' = [rin EXCEPT ![r] = scope]
          /\ IF scope.type # "http"
             THEN /\ rfwd' = [rfwd EXCEPT ![r] = scope]
                  /\ rscope' = [rscope EXCEPT ![r] = scope]
                  /\ rpc' = [rpc EXCEPT ![r] = "passed"]
                  /\ UNCHANGED <<scopeVar, rseen>>
             ELSE /\ scopeVar' = ContextVarSet(scopeVar, r, scope)
                  /\ rscope' = [rscope EXCEPT ![r] = [scope EXCEPT !.app = TRUE]]
                  /\ rpc' = [rpc EXCEPT ![r] = "routing"]
                  /\ rseen' = [q \in Reqs |->
                                 rseen[q] \/ (q # r /\ rpc[q] \in {"routing", "matched"})]
                  /\ UNCHANGED rfwd
    /\ UNCHANGED <<rmatch, nameVars, valVars, argVars, defVars, pathVars>>

MiddlewareCall(r) == MiddlewareCallWith(r, IncomingScopes(r))

\* await self.router(scope, receive, send): the router matches the request
\* and updates the scope with the child scope of the match.
RouterResolve(r) ==
    /\ rpc[r] = "routing"
    /\ \E m \in Matches :
          /\ rmatch' = [rmatch EXCEPT ![r] = m]
          /\ rscope' = [rscope EXCEPT ![r] = RouterChildScope(rscope[r], m)]
    /\ rpc' = [rpc EXCEPT ![r] = "matched"]
    /\ UNCHANGED <<rin, scopeVar, rfwd, rseen, nameVars, valVars, argVars, defVars, pathVars>>

\* RoutingOperation.__call__
RoutingOperationCall(r) ==
    /\ rpc[r] = "matched"
    /\ LET original_scope == ContextVarGet(scopeVar, r)
       IN  rfwd' = [rfwd EXCEPT ![r] =
                      RoutingOperationForward(original_scope, rscope[r],
                                              rmatch[r].operation_id)]
    /\ rpc' = [rpc EXCEPT ![r] = "forwarded"]
    /\ UNCHANGED <<rin, rscope, scopeVar, rmatch, rseen, nameVars, valVars, argVars, defVars, pathVars>>

RouteNext ==
    \E r \in Reqs : MiddlewareCall(r) \/ RouterResolve(r) \/ RoutingOperationCall(r)

SpecRouting == RouteInit /\ [][RouteNext]_vars

Outer(r) == rin[r].path_params.d
Resolved(r) == rmatch[r].params
Forwarded(r) == rfwd[r].path_params.d

(* C4, as stated: the forwarded path_params hold every parameter already   *)
(* resolved in the outer scope with its original value, plus the newly     *)
(* resolved ones, and a newly resolved parameter never replaces an         *)
(* already-resolved value of the same name.                                *)
C4_OuterParamsNeverReplaced ==
    \A r \in Reqs : rpc[r] = "forwarded" =>
        /\ \A k \in DictKeys(Outer(r)) :
              DictHas(Forwarded(r), k) /\ DictGet(Forwarded(r), k) = DictGet(Outer(r), k)
        /\ \A k \in DictKeys(Resolved(r)) : DictHas(Forwarded(r), k)
        /\ \A k \in DictKeys(Resolved(r)) \ DictKeys(Outer(r)) :
              DictGet(Forwarded(r), k) = DictGet(Resolved(r), k)

(* C4, amended: the forwarded path_params hold exactly the outer and the   *)
(* newly resolved names; every newly resolved parameter has its new value  *)
(* (it replaces an outer value of the same name), and every outer          *)
(* parameter that was not resolved again keeps its original value.         *)
C4_ResolvedParamsWin ==
    \A r \in Reqs : rpc[r] = "forwarded" =>
        /\ rfwd[r].path_params.set
        /\ DictKeys(Forwarded(r)) = DictKeys(Outer(r)) \cup DictKeys(Resolved(r))
        /\ \A k \in DictKeys(Resolved(r)) :
              DictGet(Forwarded(r), k) = DictGet(Resolved(r), k)
        /\ \A k \in DictKeys(Outer(r)) \ DictKeys(Resolved(r)) :
              DictGet(Forwarded(r), k) = DictGet(Outer(r), k)

\* A request was forwarded whose route resolved a name the outer scope had
\* already resolved.
C4_Witness ==
    \E r \in Reqs :
        /\ rpc[r] = "forwarded"
        /\ DictHas(Outer(r), "id") /\ DictHas(Resolved(r), "id")
        /\ DictGet(Outer(r), "id") # DictGet(Resolved(r), "id")

(* C5: under any interleaving of concurrent requests, the scope forwarded  *)
(* for a request is the copy of that request's own incoming scope, with    *)
(* the operation_id, api_base_path and path_params resolved for that same  *)
(* request.                                                                *)
C5_ForwardedScopeIsOwn ==
    \A r \in Reqs : rpc[r] = "forwarded" =>
        /\ rfwd[r].rid = r
        /\ rfwd[r].type = rin[r].type
        /\ rfwd[r].root_path = rin[r].root_path
        /\ rfwd[r].app = rin[r].app
        /\ rfwd[r].routing.set
        /\ rfwd[r].routing.operation_id = rmatch[r].operation_id
        /\ rfwd[r].routing.api_base_path = rmatch[r].base
        /\ DictKeys(Forwarded(r)) = DictKeys(Outer(r)) \cup DictKeys(Resolved(r))
        /\ \A k \in DictKeys(Resolved(r)) :
              DictGet(Forwarded(r), k) = DictGet(Resolved(r), k)

\* A request was forwarded after another request, with a different scope
\* and a different match, stored its scope while the first was suspended.
C5_Witness ==
    \E r, q \in Reqs :
        /\ r # q
        /\ rpc[r] = "forwarded" /\ rseen[r]
        /\ rpc[q] \in {"routing", "matched", "forwarded"}
        /\ rin[q].root_path # rin[r].root_path
        /\ rin[q].path_params # rin[r].path_params

-----------------------------------------------------------------------------
(* One request through RoutingMiddleware and the routes of a mounted API *)

RouterInit ==
    /\ rin = [r \in Reqs |-> NoScope]
    /\ rscope = [r \in Reqs |-> NoScope]
    /\ scopeVar = [r \in Reqs |-> NoScope]
    /\ rmatch = [r \in Reqs |-> NoMatch]
    /\ rfwd = [r \in Reqs |-> NoScope]
    /\ rpc = [r \in Reqs |-> IF r = 1 THEN "waiting" ELSE "idle"]
    /\ rseen = [r \in Reqs |-> FALSE]
    /\ NamesIdle
    /\ ValIdle
    /\ ArgsIdle
    /\ DefaultsIdle
    /\ PathsIdle

\* RoutingMiddleware.__call__ up to its await
RoutedCall == MiddlewareCallWith(1, RoutedScopes(1))

\* await self.router(scope, receive, send), the router matching the
\* request's path and method against the registered routes
RouterDispatch ==
    /\ rpc[1] = "routing"
    /\ LET out == MiddlewareRouter(rscope[1].path, rscope[1].method)
           m == [operation_id |-> out.operation_id, params |-> out.params,
                 base |-> out.base]
       IN  IF out.kind = "operation"
           THEN /\ rmatch' = [rmatch EXCEPT ![1] = m]
                /\ rscope' = [rscope EXCEPT ![1] = RouterChildScope(rscope[1], m)]
                /\ rpc' = [rpc EXCEPT ![1] = "matched"]
           ELSE /\ rpc' = [rpc EXCEPT ![1] =
                             IF out.kind = "raise" THEN "raised" ELSE "redirected"]
                /\ UNCHANGED <<rmatch, rscope>>
    /\ UNCHANGED <<rin, scopeVar, rfwd, rseen, nameVars, valVars, argVars, defVars, pathVars>>

RouterNext == RoutedCall \/ RouterDispatch \/ RoutingOperationCall(1)

SpecRouter == RouterInit /\ [][RouterNext]_vars

\* The request's path and method are those of a registered route.
Registered(scope) ==
    /\ MountMatches(ApiBasePath, scope.path)
    /\ \E i \in 1..Len(ApiRoutes) :
          RouteMatch(ApiRoutes[i],
                     SubSeq(scope.path, Len(ApiBasePath) + 1, Len(scope.path)),
                     scope.method) = "FULL"

(* C11: for an HTTP request whose path and method match no registered      *)
(* route, RoutingMiddleware neither raises nor responds itself: it calls   *)
(* the next application with method, path and path parameters unchanged    *)
(* and operation_id None; a non-HTTP scope is forwarded untouched.         *)
C11_UnmatchedFallsThrough ==
    /\ (rin[1].type = "http" /\ ~Registered(rin[1])) =>
          /\ rpc[1] \notin {"raised", "redirected"}
          /\ rpc[1] = "forwarded" =>
                /\ rfwd[1].method = rin[1].method
                /\ rfwd[1].path = rin[1].path
                /\ rfwd[1].path_params.d = rin[1].path_params.d
                /\ rfwd[1].routing.operation_id = "None"
    /\ rpc[1] = "passed" => rfwd[1] = rin[1]

-----------------------------------------------------------------------------
(* parameter_to_arg: the wrapper called with a request *)

\* parameter_to_arg(operation, function, pythonic_params)
ArgsInit ==
    /\ aop \in Operations
    /\ afn \in Handlers
    /\ areq = NoRequest
    /\ ares = NoResult
    /\ NamesIdle
    /\ ValIdle
    /\ RouteIdle
    /\ DefaultsIdle
    /\ PathsIdle

\* What a wrapper does with a request, given the body it has read or not:
\* the keyword arguments it calls the handler with, and next to them what each
\* extraction function returns for this request.
WrapperRun(kind, class, request, operation, fn, body_read, request_body) ==
    [wrapper |-> kind, request_class |-> class, body_read |-> body_read,
     request_body |-> request_body,
     path_args |-> _get_path_arguments(request.path_params, operation, fn.pythonic_params),
     query_args |-> _get_query_arguments(request.query_params, operation, fn.arguments,
                                         fn.has_kwargs, fn.pythonic_params),
     body_args |-> IF operation.method \in BodyMethods
                   THEN _get_body_argument(request_body, operation, fn.arguments,
                                           fn.has_kwargs, fn.pythonic_params,
                                           request.content_type)
                   ELSE NotCalled,
     file_args |-> IF operation.method \in BodyMethods
                   THEN _get_file_arguments(request.files, fn.arguments, fn.has_kwargs)
                   ELSE NotCalled,
     ret |-> get_arguments(operation, request.path_params, request.query_params,
                           request_body, request.files, fn.arguments, fn.has_kwargs,
                           fn.pythonic_params, request.content_type),
     kwargs |-> prep_kwargs(request, operation, request_body, fn.arguments,
                            fn.has_kwargs, fn.pythonic_params)]

\* The requests the asynchronous wrapper is run on.
AsyncRequests ==
    {request \in Requests :
        /\ request.query_params = <<>>
        /\ request.path_params \in {<<>>, << <<K_n, StrVal("1")>> >>}}

\* Which wrapper parameter_to_arg returned, the class of the request it is
\* called with, and the request: the synchronous wrapper gets a
\* ConnexionRequest, the asynchronous one either class.
WrapperRuns ==
    {<<"sync", "ConnexionRequest", request>> : request \in Requests}
        \cup {<<"async", "ConnexionRequest", request>> : request \in AsyncRequests}
        \cup {<<"async", "MiddlewareRequest", request>> : request \in AsyncRequests}

\* wrapper(request): the synchronous wrapper reads the body with
\* get_flask_body; the asynchronous one with get_flask_body or
\* get_starlette_body, by the class of the request.
Wrapper ==
    /\ ares.wrapper = "none"
    /\ \E run \in WrapperRuns :
          /\ areq' = run[3]
          /\ LET need == NeedsBody(run[3], aop, afn.arguments, afn.has_kwargs,
                                   afn.pythonic_params)
                 request_body == IF ~need THEN NoneVal
                                 ELSE IF run[2] = "ConnexionRequest"
                                 THEN get_flask_body(run[3])
                                 ELSE get_starlette_body(run[3])
             IN  ares' = WrapperRun(run[1], run[2], run[3], aop, afn, need, request_body)
    /\ UNCHANGED <<aop, afn, nameVars, valVars, routeVars, defVars, pathVars>>

ArgsNext == Wrapper

SpecArgs == ArgsInit /\ [][ArgsNext]_vars

\* The wrapper has been called with a request.
Called == ares.wrapper \in {"sync", "async"}

\* sanitize(operation.body_name(content_type)) for the wrapped handler
BodyName == Sanitize(afn.pythonic_params, aop.body_name)

AcceptsName(name) == Accepts(afn.arguments, afn.has_kwargs, name)

\* A JSON request to a body-carrying operation whose handler takes the body.
JsonBodyCase ==
    /\ Called
    /\ aop.method \in BodyMethods
    /\ is_json_mimetype(areq.content_type)
    /\ AcceptsName(BodyName)
    /\ ares.body_args # Raise

SchemaDefault ==
    IF aop.body_schema.has_default THEN aop.body_schema.default ELSE DictVal(<<>>)

\* C3: for a JSON content type on a POST/PUT/PATCH operation whose handler
\* accepts the body argument, the body argument is null for an explicit null
\* on a nullable schema, the schema's default ({} without one) for an absent
\* body, on a nullable schema too, and the parsed body otherwise.
C3_JsonBodyArgument ==
    JsonBodyCase =>
        /\ DictHas(ares.body_args, BodyName)
        /\ LET value == DictGet(ares.body_args, BodyName)
           IN  /\ (areq.json = "null" /\ is_nullable(aop.body_schema)) => value = NoneVal
               /\ areq.json = "absent" => value = SchemaDefault
               /\ areq.json = "obj" => value = JsonVal("obj")

\* A form request to a Swagger 2 body-carrying operation.
Swagger2FormCase ==
    /\ Called
    /\ aop.swagger2
    /\ aop.method \in BodyMethods
    /\ ContentTypeIn(areq.content_type, FORM_CONTENT_TYPES)
    /\ afn.arguments # {} \/ afn.has_kwargs
    /\ ares.body_args # Raise

\* The typed form fields of the request at hand.
TypedFields == _get_body_argument_form(ares.request_body, aop)

\* A typed form field is returned as an argument of its own.
Unpacked(field) ==
    \E key \in {field[1], Sanitize(afn.pythonic_params, field[1])} :
        /\ DictHas(ares.body_args, key)
        /\ DictGet(ares.body_args, key) = field[2]

IsMultipart(content_type) == content_type.mimetype = "multipart/form-data"

\* The entries of a mapping that are uploaded files.
FileEntries(d) == {i \in 1..Len(d) : d[i][2].k = "file"}

DeclaredQuery == DictKeys(DefinitionsIn(aop.parameters, "query"))

\* C8: every key of the mapping _get_query_arguments returns is the
\* sanitized name of a query parameter the operation declares and is accepted
\* by the handler; an undeclared incoming query parameter reaches no handler,
\* one accepting arbitrary kwargs included, and is dropped without an error.
C8_OnlyDeclaredQueryArguments ==
    Called =>
        /\ ares.query_args # Raise =>
              \A key \in DictKeys(ares.query_args) :
                 /\ \E name \in DeclaredQuery : key = Sanitize(afn.pythonic_params, name)
                 /\ AcceptsName(key)
        /\ DictKeys(areq.query_params) \cap DeclaredQuery = {} =>
              ares.query_args = _get_query_arguments(<<>>, aop, afn.arguments,
                                                     afn.has_kwargs, afn.pythonic_params)

\* An undeclared query parameter is held back from a handler taking kwargs,
\* next to a declared one that is passed.
C8_Witness ==
    /\ Called
    /\ afn.has_kwargs
    /\ DictHas(areq.query_params, K_n)
    /\ K_n \notin DeclaredQuery
    /\ ares.query_args # Raise
    /\ ~DictHas(ares.query_args, K_n)
    /\ DictHas(ares.query_args, Sanitize(afn.pythonic_params, K_id))

\* The context entry is among the keyword arguments.
Passed(entry) ==
    /\ DictHas(ares.kwargs, entry[1])
    /\ DictGet(ares.kwargs, entry[1]) = entry[2]

\* C9 as stated: an entry of the request's context is among the handler's
\* keyword arguments exactly when its key is accepted by the handler, and a
\* handler declaring context_ gets the full context mapping under that name.
C9_ContextEntriesPassed ==
    (Called /\ ares.kwargs # Raise) =>
        /\ \A i \in 1..Len(areq.context) :
              Passed(areq.context[i]) <=> AcceptsName(areq.context[i][1])
        /\ CONTEXT_NAME \in afn.arguments =>
              Passed(<<CONTEXT_NAME, DictVal(areq.context)>>)

\* C9, amended: the same for every context entry whose key is not context_;
\* a handler declaring context_ gets the full context mapping under that
\* name, in place of a context entry of that name.
C9_ContextEntriesPassedExceptReserved ==
    (Called /\ ares.kwargs # Raise) =>
        /\ \A i \in 1..Len(areq.context) :
              areq.context[i][1] # CONTEXT_NAME =>
                  (Passed(areq.context[i]) <=> AcceptsName(areq.context[i][1]))
        /\ CONTEXT_NAME \in afn.arguments =>
              Passed(<<CONTEXT_NAME, DictVal(areq.context)>>)
        /\ \A i \in 1..Len(areq.context) :
              (areq.context[i][1] = CONTEXT_NAME /\ CONTEXT_NAME \in afn.arguments) =>
                  ~Passed(areq.context[i])

\* A handler declaring both a context key and context_ gets both.
C9_Witness ==
    /\ Called
    /\ ~afn.has_kwargs
    /\ {K_n, CONTEXT_NAME} \subseteq afn.arguments
    /\ areq.context = << <<K_n, CtxVal("user")>> >>
    /\ ares.kwargs # Raise
    /\ DictGet(ares.kwargs, K_n) = CtxVal("user")
    /\ DictGet(ares.kwargs, CONTEXT_NAME) = DictVal(areq.context)

\* What the synchronous wrapper passes to the handler for the request at hand.
SyncKwargs ==
    prep_kwargs(areq, aop,
                IF NeedsBody(areq, aop, afn.arguments, afn.has_kwargs, afn.pythonic_params)
                THEN get_flask_body(areq) ELSE NoneVal,
                afn.arguments, afn.has_kwargs, afn.pythonic_params)

\* The body as the transport parses it for the request's content type.
ParsedBody ==
    IF areq.content_type.mimetype = "application/json"
    THEN IF areq.json = "obj" THEN JsonVal("obj") ELSE NoneVal
    ELSE IF areq.content_type.mimetype \in FORM_CONTENT_TYPES THEN DictVal(areq.form)
    ELSE IF areq.data = "" THEN NoneVal ELSE BytesVal(areq.data)

C15_OnlyDeclaredParameters ==
    (Called /\ ~afn.has_kwargs /\ ares.kwargs # Raise) =>
        DictKeys(ares.kwargs) \subseteq afn.arguments

\* C16: for every context key other than context_ that the handler accepts,
\* the keyword argument of that name is the context's value, also when the
\* path, query, body or files of the request gave an argument of that name.
C16_ContextOverridesRequest ==
    (Called /\ ares.kwargs # Raise) =>
        \A i \in 1..Len(areq.context) :
            (areq.context[i][1] # CONTEXT_NAME /\ AcceptsName(areq.context[i][1])) =>
                /\ DictHas(ares.kwargs, areq.context[i][1])
                /\ DictGet(ares.kwargs, areq.context[i][1]) = areq.context[i][2]

\* The path gave n = 1 and the context gave n: the handler gets the context's.
C16_Witness ==
    /\ Called
    /\ K_n \in afn.arguments
    /\ areq.context = << <<K_n, CtxVal("user")>> >>
    /\ ares.ret # Raise
    /\ DictHas(ares.ret, K_n)
    /\ DictGet(ares.ret, K_n) = IntVal("1")
    /\ ares.kwargs # Raise
    /\ DictGet(ares.kwargs, K_n) = CtxVal("user")

-----------------------------------------------------------------------------
(* The sanitizers applied to every bounded name *)

NamesInit ==
    /\ nameIn \in NamesUpTo(MaxNameLen)
    /\ nameOut = <<>>
    /\ nameFn = "none"
    /\ ValIdle
    /\ RouteIdle
    /\ ArgsIdle
    /\ DefaultsIdle
    /\ PathsIdle

CallSanitized ==
    /\ nameFn = "none"
    /\ nameOut' = sanitized(nameIn)
    /\ nameFn' = "sanitized"
    /\ UNCHANGED <<nameIn, valVars, routeVars, argVars, defVars, pathVars>>

CallPythonic ==
    /\ nameFn = "none"
    /\ nameOut' = pythonic(nameIn)
    /\ nameFn' = "pythonic"
    /\ UNCHANGED <<nameIn, valVars, routeVars, argVars, defVars, pathVars>>

NamesNext == CallSanitized \/ CallPythonic

SpecNames == NamesInit /\ [][NamesNext]_vars

-----------------------------------------------------------------------------
(* C10: for every input name, pythonic(name) is never a reserved keyword   *)
(* or a built-in name.                                                     *)
C10_PythonicNeverReserved ==
    nameFn = "pythonic" => nameOut \notin PyBuiltins \cup PyKeywords

-----------------------------------------------------------------------------
(* Query defaults with object identity: parameter.py, lines 307-341.       *)
(*                                                                         *)
(* Python lists and dicts are objects on a heap: the heap is a sequence of *)
(* objects and an object's identity is its index.  A value is an integer   *)
(* or a reference to an object.  An object holds its items as <<key,       *)
(* value>> pairs; the items of a list all have the key "".                 *)

\* Most items a list or dict grows to while a caller mutates it.
MaxItems == 3

Num(n) == [ref |-> FALSE, n |-> n]
Ref(i) == [ref |-> TRUE, n |-> i]

ListObj(values) == [kind |-> "list", items |-> [i \in 1..Len(values) |-> <<"", values[i]>>]]
DictObj(items) == [kind |-> "dict", items |-> items]

\* copy.copy(v): a new object with the same items
copy(h, v) ==
    IF ~v.ref THEN [h |-> h, v |-> v]
    ELSE [h |-> Append(h, h[v.n]), v |-> Ref(Len(h) + 1)]

RECURSIVE deepcopy(_, _)
RECURSIVE DeepCopyItems(_, _)
\* copy.deepcopy(v): a new object whose items are deep copies
deepcopy(h, v) ==
    IF ~v.ref THEN [h |-> h, v |-> v]
    ELSE LET r == DeepCopyItems(h, h[v.n].items)
         IN  [h |-> Append(r.h, [kind |-> h[v.n].kind, items |-> r.items]),
              v |-> Ref(Len(r.h) + 1)]

DeepCopyItems(h, items) ==
    IF items = <<>> THEN [h |-> h, items |-> <<>>]
    ELSE LET c == deepcopy(h, Head(items)[2])
             rest == DeepCopyItems(c.h, Tail(items))
         IN  [h |-> rest.h, items |-> << <<Head(items)[1], c.v>> >> \o rest.items]

\* A schema or property: its default (if any), its type ("" if absent), its properties (if any).
Prop(has_default, default, type_, has_properties, properties) ==
    [has_default |-> has_default, default |-> default, type |-> type_,
     has_properties |-> has_properties, properties |-> properties]

NoSchema == Prop(FALSE, Num(0), "", FALSE, <<>>)

\* A parameter definition: its name, its own default (if any), its schema (if any).
Param(name, has_default, default, has_schema, schema) ==
    [name |-> name, has_default |-> has_default, default |-> default,
     has_schema |-> has_schema, schema |-> schema]

RECURSIVE _build_default_obj_recursive_h(_, _, _)
\* _build_default_obj_recursive, filling the dict default_object in place
_build_default_obj_recursive_h(h, properties, default_object) ==
    IF properties = <<>> THEN h
    ELSE LET name == Head(properties)[1]
             property_ == Head(properties)[2]
             items == h[default_object].items
             next ==
                 IF property_.has_default /\ ~DictHas(items, name)
                 THEN \* default_object[name] = copy(property_["default"])
                      LET c == copy(h, property_.default)
                      IN  [c.h EXCEPT ![default_object].items = DictSet(@, name, c.v)]
                 ELSE IF property_.type = "object" /\ property_.has_properties
                 THEN \* default_object.setdefault(name, {}), then recurse into it
                      LET h1 == IF DictHas(items, name) THEN h
                                ELSE [Append(h, DictObj(<<>>)) EXCEPT
                                        ![default_object].items = DictSet(@, name, Ref(Len(h) + 1))]
                          sub == DictGet(h1[default_object].items, name).n
                      IN  _build_default_obj_recursive_h(h1, property_.properties, sub)
                 ELSE h
         IN  _build_default_obj_recursive_h(next, Tail(properties), default_object)

\* _get_default_obj(schema)
_get_default_obj_h(h, schema) ==
    IF schema.has_default THEN deepcopy(h, schema.default)
    ELSE [h |-> _build_default_obj_recursive_h(Append(h, DictObj(<<>>)), schema.properties, Len(h) + 1),
          v |-> Ref(Len(h) + 1)]

RECURSIVE QueryDefaultsLoop_h(_, _, _)
\* the loop of _get_query_defaults; a KeyError leaves the key out
QueryDefaultsLoop_h(h, query_definitions, defaults) ==
    IF query_definitions = <<>> THEN [h |-> h, defaults |-> defaults]
    ELSE LET v == Head(query_definitions)
             rest == Tail(query_definitions)
         IN  IF v.has_default
             THEN QueryDefaultsLoop_h(h, rest, DictSet(defaults, v.name, v.default))
             ELSE IF ~v.has_schema \/ v.schema.type = ""
             THEN QueryDefaultsLoop_h(h, rest, defaults)
             ELSE IF v.schema.type = "object"
             THEN LET o == _get_default_obj_h(h, v.schema)
                  IN  QueryDefaultsLoop_h(o.h, rest, DictSet(defaults, v.name, o.v))
             ELSE IF v.schema.has_default
             THEN QueryDefaultsLoop_h(h, rest, DictSet(defaults, v.name, v.schema.default))
             ELSE QueryDefaultsLoop_h(h, rest, defaults)

_get_query_defaults_h(h, query_definitions) == QueryDefaultsLoop_h(h, query_definitions, <<>>)

RECURSIVE Deref(_, _)
\* The value v stands for, written out: what == compares in Python.
Deref(h, v) ==
    IF ~v.ref THEN [kind |-> "int", n |-> v.n, items |-> <<>>]
    ELSE [kind |-> h[v.n].kind, n |-> 0,
          items |-> [i \in 1..Len(h[v.n].items) |->
                        <<h[v.n].items[i][1], Deref(h, h[v.n].items[i][2])>>]]

\* A returned mapping, written out.
Contents(h, defaults) ==
    [i \in 1..Len(defaults) |-> <<defaults[i][1], Deref(h, defaults[i][2])>>]

RECURSIVE Reach(_, _)
\* The objects reachable from v, at any depth.
Reach(h, v) ==
    IF ~v.ref THEN {}
    ELSE {v.n} \cup UNION {Reach(h, h[v.n].items[i][2]) : i \in 1..Len(h[v.n].items)}

\* The default values the specification holds.
InitialHeap ==
    << ListObj(<<Num(1)>>),                    \* 1: default of the parameter tags
       ListObj(<<Num(2)>>),                    \* 2: schema default of the parameter ids
       DictObj(<< <<"a", Ref(4)>> >>),         \* 3: schema default of the parameter filter
       ListObj(<<Num(3)>>),                    \* 4
       ListObj(<<Ref(6)>>),                    \* 5: default of the property page.sizes
       ListObj(<<Num(4)>>),                    \* 6
       ListObj(<<Num(5)>>) >>                  \* 7: default of the property page.sort.by

QueryDefinitions ==
    { Param("tags", TRUE, Ref(1), FALSE, NoSchema),
      Param("ids", FALSE, Num(0), TRUE, Prop(TRUE, Ref(2), "array", FALSE, <<>>)),
      Param("filter", FALSE, Num(0), TRUE, Prop(TRUE, Ref(3), "object", FALSE, <<>>)),
      Param("page", FALSE, Num(0), TRUE,
            Prop(FALSE, Num(0), "object", TRUE,
                 << <<"sizes", Prop(TRUE, Ref(5), "array", FALSE, <<>>)>>,
                    <<"sort", Prop(FALSE, Num(0), "object", TRUE,
                                   << <<"by", Prop(TRUE, Ref(7), "array", FALSE, <<>>)>> >>)>>,
                    <<"n", Prop(TRUE, Num(1), "integer", FALSE, <<>>)>>,
                    <<"x", Prop(FALSE, Num(0), "string", FALSE, <<>>)>> >>)),
      Param("limit", FALSE, Num(0), TRUE, Prop(TRUE, Num(10), "integer", FALSE, <<>>)),
      Param("q", FALSE, Num(0), TRUE, Prop(FALSE, Num(0), "string", FALSE, <<>>)) }

\* One or two query parameters of an operation.
QueryDefinitionSets ==
    {<<p>> : p \in QueryDefinitions} \cup
    {d \in {<<p, q>> : p \in QueryDefinitions, q \in QueryDefinitions} : d[1] # d[2]}

DefaultsInit ==
    /\ qdefs \in QueryDefinitionSets
    /\ heap = InitialHeap
    /\ qfirst = <<>>
    /\ qsecond = <<>>
    /\ qsnap = <<>>
    /\ qpc = "start"
    /\ NamesIdle
    /\ ValIdle
    /\ RouteIdle
    /\ ArgsIdle
    /\ PathsIdle

\* _get_query_defaults(query_definitions), the first time
ResolveFirst ==
    /\ qpc = "start"
    /\ LET r == _get_query_defaults_h(heap, qdefs)
       IN  /\ heap' = r.h
           /\ qfirst' = r.defaults
           /\ qsnap' = Contents(r.h, r.defaults)
    /\ qpc' = "first"
    /\ UNCHANGED <<qdefs, qsecond, nameVars, valVars, routeVars, argVars, pathVars>>

\* _get_query_defaults(query_definitions), again
ResolveSecond ==
    /\ qpc = "first"
    /\ LET r == _get_query_defaults_h(heap, qdefs)
       IN  /\ heap' = r.h
           /\ qsecond' = r.defaults
    /\ qpc' = "second"
    /\ UNCHANGED <<qdefs, qfirst, qsnap, nameVars, valVars, routeVars, argVars, pathVars>>

\* The caller changes a list or dict it finds in the first mapping, at any
\* depth: list.append(9), or d["m"] = 9.
MutateFirst ==
    /\ qpc \in {"first", "second"}
    /\ \E i \in 1..Len(qfirst) : \E o \in Reach(heap, qfirst[i][2]) :
          /\ Len(heap[o].items) < MaxItems
          /\ heap' = [heap EXCEPT ![o].items =
                         IF heap[o].kind = "list" THEN Append(@, <<"", Num(9)>>)
                         ELSE DictSet(@, "m", Num(9))]
    /\ UNCHANGED <<qdefs, qfirst, qsecond, qsnap, qpc, nameVars, valVars, routeVars, argVars, pathVars>>

DefaultsNext == ResolveFirst \/ ResolveSecond \/ MutateFirst

SpecDefaults == DefaultsInit /\ [][DefaultsNext]_vars

\* The default values of the specification are as they were written.
SpecificationUnchanged == SubSeq(heap, 1, Len(InitialHeap)) = InitialHeap

\* C13: whatever the caller does to the mapping _get_query_defaults
\* returned, at any depth, the specification's defaults stay as they were,
\* and a second resolution returns what the first one returned when it was
\* new, and keeps it while the first is changed further.
C13_DefaultsShareNothing ==
    /\ qpc \in {"first", "second"} => SpecificationUnchanged
    /\ qpc = "second" => Contents(heap, qsecond) = qsnap

-----------------------------------------------------------------------------
(* Path templates: routing.py, lines 141-169.  A path is a sequence of     *)
(* one-character strings.                                                  *)

\* Most parts (literal stretches and placeholders) of a path template.
MaxParts == 2

\* PATH_PARAMETER_CONVERTERS
PATH_PARAMETER_CONVERTERS ==
    << <<"integer", <<"i", "n", "t">> >>,
       <<"number", <<"f", "l", "o", "a", "t">> >>,
       <<"path", <<"p", "a", "t", "h">> >> >>

\* name.replace("-", "_")
ReplaceHyphens(name) == [i \in 1..Len(name) |-> IF name[i] = "-" THEN "_" ELSE name[i]]

\* The mutant: the name is left as written.
convert_path_parameter_keephyphens(name, types) ==
    <<"{">> \o name
            \o (IF DictHas(types, name) /\ DictHas(PATH_PARAMETER_CONVERTERS, DictGet(types, name))
                THEN <<":">> \o DictGet(PATH_PARAMETER_CONVERTERS, DictGet(types, name))
                ELSE <<>>)
            \o <<"}">>

\* convert_path_parameter(match, types), name being match.group(1)
convert_path_parameter(name, types) ==
    LET \* converter = PATH_PARAMETER_CONVERTERS.get(types.get(name)); <<>> stands for None
        converter ==
            IF DictHas(types, name) /\ DictHas(PATH_PARAMETER_CONVERTERS, DictGet(types, name))
            THEN DictGet(PATH_PARAMETER_CONVERTERS, DictGet(types, name))
            ELSE <<>>
    IN  <<"{">> \o ReplaceHyphens(name)
                \o (IF converter # <<>> THEN <<":">> ELSE <<>>)
                \o converter
                \o <<"}">>

RECURSIVE PathParameterSub(_, _)
\* PATH_PARAMETER.sub(convert_match, swagger_path): every leftmost match of
\* \{([^}]*)\} is replaced, the text between the matches is kept.
PathParameterSub(swagger_path, types) ==
    IF swagger_path = <<>> THEN <<>>
    ELSE IF Head(swagger_path) = "{" /\ \E j \in 2..Len(swagger_path) : swagger_path[j] = "}"
    THEN LET close == CHOOSE j \in 2..Len(swagger_path) :
                         /\ swagger_path[j] = "}"
                         /\ \A k \in 2..(j - 1) : swagger_path[k] # "}"
         IN  convert_path_parameter(SubSeq(swagger_path, 2, close - 1), types)
                \o PathParameterSub(SubSeq(swagger_path, close + 1, Len(swagger_path)), types)
    ELSE <<Head(swagger_path)>> \o PathParameterSub(Tail(swagger_path), types)

\* starlettify_path(swagger_path, types); types is [given, d], not given standing for None
starlettify_path(swagger_path, types) ==
    PathParameterSub(swagger_path, IF types.given THEN types.d ELSE <<>>)

\* A part of a template: a literal stretch of text, or a placeholder with its name.
Literal(text) == [placeholder |-> FALSE, text |-> text]
Placeholder(name) == [placeholder |-> TRUE, text |-> name]

\* The template as it is written in the specification.
Written(parts) ==
    Flatten([i \in 1..Len(parts) |->
                IF parts[i].placeholder THEN <<"{">> \o parts[i].text \o <<"}">>
                ELSE parts[i].text])

ParameterNames == {<<"n">>, <<"i", "d">>, <<"i", "-", "d">>}

TemplateParts ==
    {Literal(<<"/">>), Literal(<<"/", "n", "-", "d", "/">>)}
        \cup {Placeholder(name) : name \in ParameterNames}

RECURSIVE TemplatesUpTo(_)
TemplatesUpTo(n) ==
    IF n = 0 THEN {<<>>}
    ELSE LET shorter == TemplatesUpTo(n - 1)
         IN  shorter \cup {Append(t, p) : t \in {u \in shorter : Len(u) = n - 1}, p \in TemplateParts}

\* What operation.get_path_parameter_types() can hold for these names, and None.
PathParameterTypes ==
    {[given |-> FALSE, d |-> <<>>]} \cup
    {[given |-> TRUE, d |-> d] :
        d \in DictsUpTo(ParameterNames, {"integer", "number", "path", "string"}, 2)}

PathsInit ==
    /\ ptemplate \in TemplatesUpTo(MaxParts) \ {<<>>}
    /\ ptypes \in PathParameterTypes
    /\ pout = <<"pending">>
    /\ NamesIdle
    /\ ValIdle
    /\ RouteIdle
    /\ ArgsIdle
    /\ DefaultsIdle

\* RoutingAPI.add_operation: path = starlettify_path(path, types)
CallStarlettifyPath ==
    /\ pout = <<"pending">>
    /\ pout' = starlettify_path(Written(ptemplate), ptypes)
    /\ UNCHANGED <<ptemplate, ptypes, nameVars, valVars, routeVars, argVars, defVars>>

PathsNext == CallStarlettifyPath

SpecPaths == PathsInit /\ [][PathsNext]_vars

Starlettified == pout \notin {<<"idle">>, <<"pending">>}

\* The declared type of a placeholder's parameter, "" when there is none.
DeclaredType(name) ==
    IF ptypes.given /\ DictHas(ptypes.d, name) THEN DictGet(ptypes.d, name) ELSE ""

\* The template with each placeholder rewritten: hyphens of the name as
\* underscores, then the suffix the type calls for.
Rewritten(suffixes) ==
    Flatten([i \in 1..Len(ptemplate) |->
                IF ptemplate[i].placeholder
                THEN <<"{">> \o ReplaceHyphens(ptemplate[i].text)
                             \o (IF DictHas(suffixes, DeclaredType(ptemplate[i].text))
                                 THEN DictGet(suffixes, DeclaredType(ptemplate[i].text))
                                 ELSE <<>>)
                             \o <<"}">>
                ELSE ptemplate[i].text])

====
